---- MODULE Spec2Model ----
(***************************************************************************)
(* A model of mcp-bugzilla: the entry point (main, start), the per-request *)
(* middleware ValidateHeaders.on_message with the ContextVar               *)
(* bugzilla_client, the Bugzilla REST client and the tool/prompt handlers  *)
(* of server.py.                                                           *)
(*                                                                         *)
(* Representation.  A Python dict / JSON object is a set of <<key, value>> *)
(* pairs with unique keys; a list is a sequence; a scalar is a string      *)
(* (JSON true/false/null are "true"/"false"/"null", numbers are their      *)
(* decimal text).  Python's None is the string None below.  A header or    *)
(* capability name whose letter case matters is a sequence of one-letter   *)
(* strings, so that str.lower() is computed and not assumed.  An exception *)
(* text is a sequence of text fragments: an f-string is the concatenation  *)
(* of its literal parts and the interpolated fragments.                    *)
(***************************************************************************)
EXTENDS Integers, Sequences, FiniteSets, TLC

\* Concurrent in-flight requests of the model.
NumRequests == 2
\* Longest comment list an upstream response carries.
MaxComments == 3
\* Longest bug list an upstream response carries.
MaxBugs == 2

VARIABLES
    launch,           \* the command line and environment the process was started with
    phase,            \* "Unconfigured" | "Listening" | "Exited"
    cli_args,         \* server.cli_args (a dict)
    base_url,         \* server.base_url
    registry,         \* the capabilities registered on the FastMCP instance mcp
    pc,               \* per request: where its task stands
    request,          \* per request: the inbound message (headers, capability, arguments)
    bugzilla_client,  \* the ContextVar: its value in each request's context
    token,            \* per request: the Token of bugzilla_client.set (the value before)
    bz,               \* per request: on_message's local bz (0 before it is bound)
    instances,        \* every Bugzilla object constructed so far, by identity
    observed,         \* per request: the object get_bz() handed to its handler
    calls,            \* per request: the outbound HTTP calls its client sent
    response,         \* per request: what came back from the tracker
    outcome           \* per request: how on_message ended (return value or exception)

vars == <<launch, phase, cli_args, base_url, registry, pc, request, bugzilla_client,
          token, bz, instances, observed, calls, response, outcome>>

Requests == 1..NumRequests

None == "None"

----------------------------------------------------------------------------
(* Python primitives *)

\* dict.get(key, default)
Get(d, k, default) ==
    IF \E p \in d : p[1] = k THEN (CHOOSE p \in d : p[1] = k)[2] ELSE default

\* str.lower(), letter by letter
UpperCase == <<"A", "B", "C", "D", "E", "F", "G", "H", "I", "J", "K", "L", "M",
               "N", "O", "P", "Q", "R", "S", "T", "U", "V", "W", "X", "Y", "Z">>

LowerCase == <<"a", "b", "c", "d", "e", "f", "g", "h", "i", "j", "k", "l", "m",
               "n", "o", "p", "q", "r", "s", "t", "u", "v", "w", "x", "y", "z">>

LowerOfUpper == [c \in {UpperCase[i] : i \in 1..26} |->
                    LowerCase[CHOOSE i \in 1..26 : UpperCase[i] = c]]

LowerChar(c) == IF c \in DOMAIN LowerOfUpper THEN LowerOfUpper[c] ELSE c

Lower(s) == [i \in DOMAIN s |-> LowerChar(s[i])]

\* Python truthiness of a string or None: `if api_key_value:`
TruthyNotNone(v) == v /= None

Truthy(v) == v /= None /\ v /= ""

\* str.endswith("/") and str.rstrip("/") on a text held letter group by letter group
EndsWithSlash(u) == Len(u) > 0 /\ u[Len(u)] = "/"

RECURSIVE RStripSlash(_)
RStripSlash(u) == IF EndsWithSlash(u) THEN RStripSlash(SubSeq(u, 1, Len(u) - 1)) ELSE u

----------------------------------------------------------------------------
(* The process: command line, environment, registered capabilities *)

ApiKeyName == <<"A", "p", "i", "K", "e", "y">>
XKeyName == <<"X", "-", "K", "e", "y">>

\* argparse leaves bugzilla_server None when neither the flag nor BUGZILLA_SERVER is given
NoServer == <<None>>

TrackerUrl == <<"https://bz", "/">>

\* The ways the process is started: argv (with the environment defaults folded in
\* by argparse) and the MCP_BUGZILLA_DISABLED_METHODS environment variable.
Launches ==
    { [bugzilla_server |-> TrackerUrl, host |-> "127.0.0.1", port |-> "8000",
       api_key_header |-> ApiKeyName, use_auth_header |-> FALSE, disabled_methods |-> ""],
      [bugzilla_server |-> TrackerUrl, host |-> "127.0.0.1", port |-> "8000",
       api_key_header |-> XKeyName, use_auth_header |-> FALSE, disabled_methods |-> ""],
      [bugzilla_server |-> TrackerUrl, host |-> "127.0.0.1", port |-> "8000",
       api_key_header |-> ApiKeyName, use_auth_header |-> TRUE, disabled_methods |-> ""],
      [bugzilla_server |-> TrackerUrl, host |-> "127.0.0.1", port |-> "8000",
       api_key_header |-> ApiKeyName, use_auth_header |-> FALSE,
       disabled_methods |-> "Bug_Info, Add_Comment"],
      [bugzilla_server |-> NoServer, host |-> "127.0.0.1", port |-> "8000",
       api_key_header |-> ApiKeyName, use_auth_header |-> FALSE, disabled_methods |-> ""] }

\* What the @mcp.tool() and @mcp.prompt() decorators register when server.py is imported
Tools == {"bug_info", "bug_comments", "add_comment", "bugs_quicksearch",
          "learn_quicksearch_syntax", "server_url", "bug_url", "mcp_server_info",
          "get_current_headers"}

Prompts == {"summarize_bug_comments"}

\* start(): base_url without one trailing slash; mcp.run() then serves with the
\* registry as the decorators left it
start_base_url(args) ==
    LET u == Get(args, "bugzilla_server", <<>>)
    IN  IF EndsWithSlash(u) THEN SubSeq(u, 1, Len(u) - 1) ELSE u

\* main(): the four entries it stores in server.cli_args
main_cli_args(l) ==
    { <<"bugzilla_server", l.bugzilla_server>>, <<"host", l.host>>,
      <<"port", l.port>>, <<"api_key_header", l.api_key_header>> }

----------------------------------------------------------------------------
(* mcp_utils.Bugzilla *)

\* Bugzilla.__init__: the object and the httpx.AsyncClient it owns
Bugzilla(url, api_key) ==
    [ base_url  |-> RStripSlash(url),
      api_url   |-> RStripSlash(url) \o <<"/rest">>,
      api_key   |-> api_key,
      params    |-> {<<"api_key", api_key>>},
      headers   |-> {<<"Content-Type", "application/json">>,
                     <<"Accept", "application/json">>},
      is_closed |-> FALSE ]

\* Bugzilla.close(): awaits client.aclose()
Bugzilla_close_noop(self) == self

Bugzilla_close(self) == [self EXCEPT !.is_closed = TRUE]

\* One request sent through self.client: httpx merges the client's params and headers
\* into every request sent through it, whether its URL is relative to base_url or absolute
Send(self, method, url, params, json) ==
    [ method |-> method, url |-> url, params |-> self.params \cup params,
      headers |-> self.headers, json |-> json ]

\* ContextVar.set in context ctx
ContextVarSetGlobal(cv, ctx, v) == [c \in DOMAIN cv |-> v]

ContextVarSet(cv, ctx, v) == [cv EXCEPT ![ctx] = v]

----------------------------------------------------------------------------
(* What a call or a handler ends with *)

Return(v) == [ok |-> TRUE, value |-> v, kind |-> "", text |-> <<>>]

Raise(kind, text) == [ok |-> FALSE, value |-> None, kind |-> kind, text |-> text]

\* The character ` of the ValidationError text
Backtick == "backtick"

\* asyncio.CancelledError derives from BaseException: `except Exception` lets it pass
IsException(o) == ~o.ok /\ o.kind /= "CancelledError"

NoOutcome == [ok |-> FALSE, value |-> None, kind |-> "pending", text |-> <<>>]

NoResponse == [kind |-> "none", status |-> 0, json |-> {}, text |-> ""]

HttpResponse(status, json, text) ==
    [kind |-> "http", status |-> status, json |-> json, text |-> text]

\* The connection failed or the 30 s timeout passed: httpx raises a RequestError
TransportFailure(text) == [kind |-> "transport", status |-> 0, json |-> {}, text |-> text]

\* `r = await self.client.<verb>(...)` followed by `r.raise_for_status()` and the two
\* except clauses, which log and re-raise
Fetch(resp) ==
    IF resp.kind = "transport" THEN Raise("RequestError", <<resp.text>>)
    ELSE IF ~(resp.status >= 200 /\ resp.status <= 299)
         THEN Raise("HTTPStatusError", <<"status ", ToString(resp.status)>>)
         ELSE Return(resp)

\* Bugzilla.bug_info after the await
Bugzilla_bug_info(bug_id, resp) ==
    LET r == Fetch(resp)
    IN  IF ~r.ok THEN r
        ELSE LET bugs == Get(resp.json, "bugs", <<{}>>)
             IN  IF Len(bugs) = 0 THEN Raise("IndexError", <<"list index out of range">>)
                 ELSE Return(bugs[1])

\* Bugzilla.bug_comments after the await
Bugzilla_bug_comments(bug_id, resp) ==
    LET r == Fetch(resp)
    IN  IF ~r.ok THEN r
        ELSE Return(Get(Get(Get(resp.json, "bugs", {}), bug_id, {}), "comments", <<>>))

\* Bugzilla.add_comment: the JSON body it posts
add_comment_payload_no_flag(comment, is_private) == {<<"comment", comment>>}

add_comment_payload(comment, is_private) ==
    {<<"comment", comment>>, <<"is_private", is_private>>}

\* Bugzilla.add_comment after the await
Bugzilla_add_comment(resp) ==
    LET r == Fetch(resp) IN IF ~r.ok THEN r ELSE Return(resp.json)

\* Bugzilla.quicksearch after the await
Bugzilla_quicksearch(resp) ==
    LET r == Fetch(resp) IN IF ~r.ok THEN r ELSE Return(Get(resp.json, "bugs", <<>>))

----------------------------------------------------------------------------
(* server.py: the handlers, each from its await to its end *)

\* `except Exception as e: raise <Kind>(f"<prefix>{e}")`
Wrap(o, kind, prefix) ==
    IF IsException(o) THEN Raise(kind, <<prefix>> \o o.text) ELSE o

\* get_bz(): the value of bugzilla_client in the caller's context; 0 stands for None
GetBzFailure == Raise("ToolError", <<"Bugzilla client not initialized in context">>)

bug_info(client, id, resp) ==
    Wrap(IF client = 0 THEN GetBzFailure ELSE Bugzilla_bug_info(id, resp),
         "ToolError", "Failed to fetch bug info\nReason: ")

\* [c for c in all_comments if not c.get("is_private", False)]
Falsy == {"false", "null", "0", ""}

RECURSIVE public_comments_no_default(_)
public_comments_no_default(all_comments) ==
    IF all_comments = <<>> THEN <<>>
    ELSE LET c == Head(all_comments)
             rest == public_comments_no_default(Tail(all_comments))
         IN  IF Get(c, "is_private", "true") \in Falsy THEN <<c>> \o rest ELSE rest

RECURSIVE public_comments(_)
public_comments(all_comments) ==
    IF all_comments = <<>> THEN <<>>
    ELSE LET c == Head(all_comments)
             rest == public_comments(Tail(all_comments))
         IN  IF Get(c, "is_private", "false") \in Falsy THEN <<c>> \o rest ELSE rest

bug_comments(client, id, include_private_comments, resp) ==
    LET o == IF client = 0 THEN GetBzFailure ELSE Bugzilla_bug_comments(id, resp)
    IN  Wrap(IF ~o.ok THEN o
             ELSE IF include_private_comments = "true" THEN o
             ELSE Return(public_comments(o.value)),
             "ToolError", "Failed to fetch bug comments\nReason: ")

add_comment(client, resp) ==
    Wrap(IF client = 0 THEN GetBzFailure ELSE Bugzilla_add_comment(resp),
         "ToolError", "Failed to create a comment\n")

\* The dict literal bugs_quicksearch appends for one bug
essential_fields_raw_id(bug) ==
    { <<"id", Get(bug, "id", None)>>,
      <<"product", Get(bug, "product", None)>>,
      <<"component", Get(bug, "component", None)>>,
      <<"assigned_to", Get(bug, "assigned_to", None)>>,
      <<"status", Get(bug, "status", None)>>,
      <<"resolution", Get(bug, "resolution", None)>>,
      <<"summary", Get(bug, "summary", None)>>,
      <<"last_updated", Get(bug, "last_change_time", None)>> }

essential_fields(bug) ==
    { <<"bug_id", Get(bug, "id", None)>>,
      <<"product", Get(bug, "product", None)>>,
      <<"component", Get(bug, "component", None)>>,
      <<"assigned_to", Get(bug, "assigned_to", None)>>,
      <<"status", Get(bug, "status", None)>>,
      <<"resolution", Get(bug, "resolution", None)>>,
      <<"summary", Get(bug, "summary", None)>>,
      <<"last_updated", Get(bug, "last_change_time", None)>> }

bugs_quicksearch(client, resp) ==
    LET o == IF client = 0 THEN GetBzFailure ELSE Bugzilla_quicksearch(resp)
    IN  Wrap(IF ~o.ok THEN o
             ELSE Return([i \in 1..Len(o.value) |-> essential_fields(o.value[i])]),
             "ToolError", "Search failed: ")

\* learn_quicksearch_syntax: bz.client.get(url) without raise_for_status; a status
\* other than 200 raises PromptError inside the try, which the except wraps again
learn_quicksearch_syntax(client, resp) ==
    Wrap(IF client = 0 THEN GetBzFailure
         ELSE IF resp.kind = "transport" THEN Raise("RequestError", <<resp.text>>)
         ELSE IF resp.status /= 200
              THEN Raise("PromptError",
                         <<"Failed to fetch bugzilla quicksearch_syntax with status code ",
                           ToString(resp.status)>>)
              ELSE Return(resp.text),
         "PromptError", "Failed to fetch quicksearch documentation: ")

\* summarize_bug_comments: the fixed template around the list bz.bug_comments returned
summarize_bug_comments(client, id, resp) ==
    LET o == IF client = 0 THEN GetBzFailure ELSE Bugzilla_bug_comments(id, resp)
    IN  Wrap(IF ~o.ok THEN o
             ELSE Return(<<"You are an expert in summarizing bugzilla comments. ... Comments Data:", o.value>>),
             "PromptError", "Summarize Comments Failed\nReason: ")

\* The handler of capability cap: client is what get_bz() found in the context (0 for
\* None, and then the handler ends before any call), resp the tracker's answer
HandlerResult(cap, arguments, client, resp) ==
    CASE cap = "bug_info" -> bug_info(client, Get(arguments, "id", None), resp)
      [] cap = "bug_comments" ->
            bug_comments(client, Get(arguments, "id", None),
                         Get(arguments, "include_private_comments", "false"), resp)
      [] cap = "add_comment" -> add_comment(client, resp)
      [] cap = "bugs_quicksearch" -> bugs_quicksearch(client, resp)
      [] cap = "learn_quicksearch_syntax" -> learn_quicksearch_syntax(client, resp)
      [] cap = "summarize_bug_comments" ->
            summarize_bug_comments(client, Get(arguments, "id", None), resp)

\* The one outbound call the handler of cap makes through the client get_bz() returned
HandlerCall(cap, arguments, client) ==
    CASE cap = "bug_info" ->
            Send(client, "GET", client.api_url \o <<"/bug/", Get(arguments, "id", None)>>, {}, None)
      [] cap \in {"bug_comments", "summarize_bug_comments"} ->
            Send(client, "GET",
                 client.api_url \o <<"/bug/", Get(arguments, "id", None), "/comment">>, {}, None)
      [] cap = "add_comment" ->
            Send(client, "POST",
                 client.api_url \o <<"/bug/", Get(arguments, "bug_id", None), "/comment">>, {},
                 add_comment_payload(Get(arguments, "comment", None),
                                     Get(arguments, "is_private", "false")))
      [] cap = "bugs_quicksearch" ->
            Send(client, "GET", client.api_url \o <<"/bug">>,
                 { <<"quicksearch", Get(arguments, "query", None)>>,
                   <<"limit", Get(arguments, "limit", "50")>>,
                   <<"offset", Get(arguments, "offset", "0")>> }, None)
      [] cap = "learn_quicksearch_syntax" ->
            Send(client, "GET", client.base_url \o <<"/page.cgi?id=quicksearch.html">>, {}, None)

----------------------------------------------------------------------------
(* Inputs: inbound messages and the tracker's answers *)

\* Header maps as they arrive on the wire (name, value)
HeaderMaps ==
    { {},
      {<<(<<"A", "P", "I", "K", "E", "Y">>), "k1">>},
      {<<(<<"a", "p", "i", "k", "e", "y">>), "k2">>},
      {<<ApiKeyName, "">>},
      {<<(<<"x", "-", "k", "e", "y">>), "k1">>} }

\* fastmcp's get_http_headers(): the current request's headers, names lower-cased
get_http_headers(wire) == {<<Lower(p[1]), p[2]>> : p \in wire}

BugId == "123"

Messages ==
    { [capability |-> "bug_info", arguments |-> {<<"id", BugId>>}],
      [capability |-> "bug_comments", arguments |-> {<<"id", BugId>>}],
      [capability |-> "bug_comments",
       arguments |-> {<<"id", BugId>>, <<"include_private_comments", "true">>}],
      [capability |-> "add_comment",
       arguments |-> {<<"bug_id", BugId>>, <<"comment", "text">>}],
      [capability |-> "add_comment",
       arguments |-> {<<"bug_id", BugId>>, <<"comment", "text">>, <<"is_private", "true">>}],
      [capability |-> "bugs_quicksearch", arguments |-> {<<"query", "q">>}],
      [capability |-> "learn_quicksearch_syntax", arguments |-> {}],
      [capability |-> "summarize_bug_comments", arguments |-> {<<"id", BugId>>}],
      [capability |-> "server_url", arguments |-> {}],
      [capability |-> "no_such_tool", arguments |-> {}] }

\* The capabilities of the model whose handler awaits one tracker call
NetworkCapabilities ==
    {"bug_info", "bug_comments", "add_comment", "bugs_quicksearch",
     "learn_quicksearch_syntax", "summarize_bug_comments"}

CommentPool ==
    { {<<"id", "1">>, <<"text", "a">>, <<"is_private", "false">>},
      {<<"id", "2">>, <<"text", "b">>, <<"is_private", "true">>},
      {<<"id", "3">>, <<"text", "c">>} }

CommentLists == UNION {[1..n -> CommentPool] : n \in 0..MaxComments}

BugPool ==
    { { <<"id", "1">>, <<"product", "P">>, <<"component", "C">>, <<"assigned_to", "a">>,
        <<"status", "S">>, <<"resolution", "R">>, <<"summary", "s">>,
        <<"last_change_time", "t">>, <<"cc", "x">> },
      { <<"id", "2">>, <<"summary", "s2">>, <<"severity", "major">> } }

BugLists == UNION {[1..n -> BugPool] : n \in 0..MaxBugs}

Responses(cap) ==
    {TransportFailure("ConnectError")} \cup
    CASE cap = "bug_info" ->
            {HttpResponse(200, {<<"bugs", l>>}, "") : l \in {b \in BugLists : Len(b) <= 1}}
            \cup {HttpResponse(200, {}, ""), HttpResponse(404, {<<"error", "true">>}, "")}
      [] cap \in {"bug_comments", "summarize_bug_comments"} ->
            {HttpResponse(200, {<<"bugs", {<<BugId, {<<"comments", l>>}>>}>>}, "")
                : l \in CommentLists}
            \cup {HttpResponse(200, {<<"bugs", {}>>}, ""),
                  HttpResponse(500, {<<"error", "true">>}, "")}
      [] cap = "add_comment" ->
            {HttpResponse(201, {<<"id", "101">>}, ""),
             HttpResponse(401, {<<"error", "true">>}, "")}
      [] cap = "bugs_quicksearch" ->
            {HttpResponse(200, {<<"bugs", l>>}, "") : l \in BugLists}
            \cup {HttpResponse(200, {}, ""), HttpResponse(500, {<<"error", "true">>}, "")}
      [] cap = "learn_quicksearch_syntax" ->
            {HttpResponse(200, {}, "<html>"), HttpResponse(404, {}, "Not Found")}

\* The sample of launches, messages and answers the concurrent specification draws from
SampleLaunches ==
    {l \in Launches : ~l.use_auth_header /\ l.disabled_methods = ""}

SampleMessages ==
    {m \in Messages : m.capability \in {"bug_info", "learn_quicksearch_syntax", "no_such_tool"}}

SampleResponses(cap) ==
    {a \in Responses(cap) :
        /\ a.kind = "http"
        /\ a.status \in {200, 404}
        /\ cap = "bug_info" /\ a.status = 200 =>
              /\ Get(a.json, "bugs", <<>>) /= <<>>
              /\ Get(Get(a.json, "bugs", <<>>)[1], "id", None) = "1"}

----------------------------------------------------------------------------
(* The state machine *)

Init(Started) ==
    /\ launch \in Started
    /\ phase = "Unconfigured"
    /\ cli_args = {}
    /\ base_url = <<>>
    /\ registry = Tools \cup Prompts
    /\ pc = [r \in Requests |-> "idle"]
    /\ request = [r \in Requests |-> [headers |-> {}, capability |-> "", arguments |-> {}]]
    /\ bugzilla_client = [r \in Requests |-> 0]
    /\ token = [r \in Requests |-> 0]
    /\ bz = [r \in Requests |-> 0]
    /\ instances = <<>>
    /\ observed = [r \in Requests |-> 0]
    /\ calls = [r \in Requests |-> <<>>]
    /\ response = [r \in Requests |-> NoResponse]
    /\ outcome = [r \in Requests |-> NoOutcome]

\* main() up to and including start(): exits 1 without a tracker URL; otherwise fills
\* cli_args, sets base_url and runs the listener
main ==
    /\ phase = "Unconfigured"
    /\ IF launch.bugzilla_server = NoServer
       THEN /\ phase' = "Exited"
            /\ UNCHANGED <<cli_args, base_url>>
       ELSE /\ cli_args' = main_cli_args(launch)
            /\ base_url' = start_base_url(main_cli_args(launch))
            /\ phase' = "Listening"
    /\ UNCHANGED <<launch, registry, pc, request, bugzilla_client, token, bz, instances,
                   observed, calls, response, outcome>>

\* ValidateHeaders.on_message up to `await call_next(context)` or the raise
on_message(r, Inbound) ==
    /\ phase = "Listening"
    /\ pc[r] = "idle"
    /\ \E wire \in HeaderMaps, msg \in Inbound :
         LET api_key_header == Get(cli_args, "api_key_header", ApiKeyName)
             headers == get_http_headers(wire)
             api_key_value == Get(headers, Lower(api_key_header), None)
         IN  /\ request' = [request EXCEPT ![r] =
                    [headers |-> wire, capability |-> msg.capability,
                     arguments |-> msg.arguments]]
             /\ IF Truthy(api_key_value)
                THEN /\ instances' = Append(instances, Bugzilla(base_url, api_key_value))
                     /\ bz' = [bz EXCEPT ![r] = Len(instances) + 1]
                     /\ token' = [token EXCEPT ![r] = bugzilla_client[r]]
                     /\ bugzilla_client' = ContextVarSet(bugzilla_client, r, Len(instances) + 1)
                     /\ pc' = [pc EXCEPT ![r] = "call_next"]
                     /\ UNCHANGED outcome
                ELSE /\ outcome' = [outcome EXCEPT ![r] =
                            Raise("ValidationError",
                                  <<Backtick, api_key_header, Backtick, " header is required">>)]
                     /\ pc' = [pc EXCEPT ![r] = "done"]
                     /\ UNCHANGED <<instances, bz, token, bugzilla_client>>
    /\ UNCHANGED <<launch, phase, cli_args, base_url, registry, observed, calls, response>>

\* call_next(context): the framework looks the capability up in the registry and runs
\* its handler up to the await of the tracker call (or to its end when it has none)
call_next(r) ==
    /\ pc[r] = "call_next"
    /\ LET cap == request[r].capability
           client == bugzilla_client[r]
       IN  IF cap \notin registry
           THEN /\ outcome' = [outcome EXCEPT ![r] =
                       Raise("NotFoundError", <<"Unknown capability">>)]
                /\ pc' = [pc EXCEPT ![r] = "finally"]
                /\ UNCHANGED <<observed, calls>>
           ELSE IF cap = "server_url"
           THEN /\ outcome' = [outcome EXCEPT ![r] = Return(base_url)]
                /\ pc' = [pc EXCEPT ![r] = "finally"]
                /\ UNCHANGED <<observed, calls>>
           ELSE IF client = 0
           THEN /\ outcome' = [outcome EXCEPT ![r] =
                       HandlerResult(cap, request[r].arguments, 0, NoResponse)]
                /\ pc' = [pc EXCEPT ![r] = "finally"]
                /\ UNCHANGED <<observed, calls>>
           ELSE /\ observed' = [observed EXCEPT ![r] = client]
                /\ calls' = [calls EXCEPT ![r] =
                       Append(@, HandlerCall(cap, request[r].arguments, instances[client]))]
                /\ pc' = [pc EXCEPT ![r] = "awaiting"]
                /\ UNCHANGED outcome
    /\ UNCHANGED <<launch, phase, cli_args, base_url, registry, request, bugzilla_client,
                   token, bz, instances, response>>

\* The tracker answers (or the transport fails) and the handler runs to its end
Respond(r, Answers) ==
    /\ pc[r] = "awaiting"
    /\ \E resp \in Answers[request[r].capability] :
         /\ response' = [response EXCEPT ![r] = resp]
         /\ outcome' = [outcome EXCEPT ![r] =
                HandlerResult(request[r].capability, request[r].arguments, observed[r], resp)]
    /\ pc' = [pc EXCEPT ![r] = "finally"]
    /\ UNCHANGED <<launch, phase, cli_args, base_url, registry, request, bugzilla_client,
                   token, bz, instances, observed, calls>>

\* The request is cancelled while its handler is suspended on the tracker call
Cancel(r) ==
    /\ pc[r] = "awaiting"
    /\ outcome' = [outcome EXCEPT ![r] = Raise("CancelledError", <<>>)]
    /\ pc' = [pc EXCEPT ![r] = "finally"]
    /\ UNCHANGED <<launch, phase, cli_args, base_url, registry, request, bugzilla_client,
                   token, bz, instances, observed, calls, response>>

\* on_message's finally clause: `await bz.close()` and `bugzilla_client.reset(token)`,
\* after which the return value or the exception leaves on_message
Finally(r) ==
    /\ pc[r] = "finally"
    /\ instances' = [instances EXCEPT ![bz[r]] = Bugzilla_close(@)]
    /\ bugzilla_client' = ContextVarSet(bugzilla_client, r, token[r])
    /\ pc' = [pc EXCEPT ![r] = "done"]
    /\ UNCHANGED <<launch, phase, cli_args, base_url, registry, request, token, bz,
                   observed, calls, response, outcome>>

\* Requests served concurrently, over a sample of the traffic
Next ==
    \/ main
    \/ \E r \in Requests : on_message(r, SampleMessages)
    \/ \E r \in Requests : call_next(r)
    \/ \E r \in Requests : Respond(r, [cap \in NetworkCapabilities |-> SampleResponses(cap)])
    \/ \E r \in Requests : Cancel(r)
    \/ \E r \in Requests : Finally(r)

Spec == Init(SampleLaunches) /\ [][Next]_vars

\* One request, over every message and every upstream answer within the bounds
NextOne ==
    \/ main
    \/ on_message(1, Messages)
    \/ call_next(1)
    \/ Respond(1, [cap \in NetworkCapabilities |-> Responses(cap)])
    \/ Cancel(1)
    \/ Finally(1)

OneSpec == Init(Launches) /\ [][NextOne]_vars

----------------------------------------------------------------------------
(* Properties *)

\* What a request's wire headers say about the configured credential header, read off
\* the launch and the wire and not off anything on_message computed
CredentialValues(r) ==
    {p[2] : p \in {q \in request[r].headers :
                      Lower(q[1]) = Lower(launch.api_key_header)}}

LacksCredential(r) == CredentialValues(r) \subseteq {""}

KeyOf(r) == CHOOSE k \in CredentialValues(r) : TRUE

Finished(r) == pc[r] \in {"finally", "done"}

\* C1: a message whose headers lack the configured credential header (in any letter
\* case), or carry it empty, ends in a ValidationError that names the configured
\* header, and for it no Bugzilla object was constructed, no handler ran and no
\* outbound call was made.
C1_MissingCredentialFailsClosed ==
    \A r \in Requests :
        (pc[r] /= "idle" /\ LacksCredential(r)) =>
            /\ pc[r] = "done"
            /\ ~outcome[r].ok
            /\ outcome[r].kind = "ValidationError"
            /\ Len(outcome[r].text) >= 2
            /\ outcome[r].text[2] = launch.api_key_header
            /\ bz[r] = 0
            /\ bugzilla_client[r] = 0
            /\ observed[r] = 0
            /\ calls[r] = <<>>
            /\ response[r] = NoResponse

\* C1's case: a request that carried the configured header with an empty value, and
\* one that carried only another header, have both been turned away.
C1_Witness ==
    \E r1, r2 \in Requests :
        /\ pc[r1] = "done" /\ CredentialValues(r1) = {""}
        /\ pc[r2] = "done" /\ CredentialValues(r2) = {} /\ request[r2].headers /= {}
        /\ outcome[r1].kind = "ValidationError"
        /\ outcome[r2].kind = "ValidationError"

\* C2: every Bugzilla object was created by a request, and once that request has
\* finished (by return, by an error of the handler or the framework, or by
\* cancellation during the outbound call) the object is closed: no open client
\* outlives the request that created it.
C2_NoClientOutlivesRequest ==
    \A i \in DOMAIN instances :
        /\ \E r \in Requests : bz[r] = i
        /\ \A r \in Requests :
              (bz[r] = i /\ pc[r] = "done") => instances[i].is_closed

\* C2's case: one request was cancelled while suspended on its outbound call, another
\* ended in an error, and both have finished with their clients closed.
C2_Witness ==
    \E r1, r2 \in Requests :
        /\ pc[r1] = "done" /\ outcome[r1].kind = "CancelledError"
        /\ pc[r2] = "done" /\ outcome[r2].kind \in {"ToolError", "PromptError"}
        /\ bz[r1] /= 0 /\ instances[bz[r1]].is_closed
        /\ bz[r2] /= 0 /\ instances[bz[r2]].is_closed

\* C3: under any interleaving, the object get_bz() hands a request's handler is the
\* one that request's on_message created, bound to that request's API key and still
\* open while the handler is suspended; no two requests are handed, or create, the
\* same object.
C3_RequestSeesOwnClient ==
    \A r \in Requests :
        /\ observed[r] /= 0 =>
              /\ observed[r] = bz[r]
              /\ instances[observed[r]].api_key = KeyOf(r)
              /\ pc[r] = "awaiting" => ~instances[observed[r]].is_closed
        /\ \A r2 \in Requests \ {r} :
              /\ observed[r] /= 0 => observed[r2] /= observed[r]
              /\ bz[r] /= 0 => bz[r2] /= bz[r]

\* C3's case: two requests carrying the same API key are suspended on their outbound
\* calls at the same time, each through a client of its own.
C3_Witness ==
    \E r1, r2 \in Requests :
        /\ r1 /= r2
        /\ pc[r1] = "awaiting" /\ pc[r2] = "awaiting"
        /\ observed[r1] /= 0 /\ observed[r2] /= 0
        /\ KeyOf(r1) = KeyOf(r2)

\* The capabilities the disable list of the launch names, lower-cased
DisabledNames ==
    IF launch.disabled_methods = "Bug_Info, Add_Comment"
    THEN {"bug_info", "add_comment"}
    ELSE {}

\* C4: when the process was started with the disable list "Bug_Info, Add_Comment", a
\* request that passed the credential check and invokes bug_info or add_comment ends
\* as "capability not found": the named capabilities were removed before the listener
\* served and are not invocable afterwards.
C4_DisabledCapabilityNotFound ==
    \A r \in Requests :
        (Finished(r) /\ bz[r] /= 0 /\ request[r].capability \in DisabledNames) =>
            /\ request[r].capability \notin registry
            /\ ~outcome[r].ok
            /\ outcome[r].kind = "NotFoundError"

\* C5: every outbound call carries the request's API key in the mode the launch
\* fixed: as the query parameter api_key without --use-auth-header, as the header
\* Authorization: Bearer <key> with it.
C5_KeyCarriedInConfiguredMode ==
    \A r \in Requests : \A i \in DOMAIN calls[r] :
        IF launch.use_auth_header
        THEN \E h \in calls[r][i].headers :
                h[1] = "Authorization" /\ h[2] = <<"Bearer ", KeyOf(r)>>
        ELSE <<"api_key", KeyOf(r)>> \in calls[r][i].params

\* A successful upstream answer that holds no bug: no bug list, or an empty one
HoldsNoBug(resp) ==
    /\ resp.kind = "http" /\ resp.status >= 200 /\ resp.status <= 299
    /\ \A p \in resp.json : p[1] = "bugs" => p[2] = <<>>

\* C6: bug_info on a successful upstream answer that holds no bug fails; it never
\* returns a value, an empty mapping in particular.
C6_NoBugFails ==
    \A r \in Requests :
        (Finished(r) /\ request[r].capability = "bug_info" /\ HoldsNoBug(response[r])) =>
            ~outcome[r].ok

\* The handler's client operation failed: the tracker answered outside 2xx, or the
\* transport failed
ClientFailed(r) ==
    /\ Finished(r)
    /\ request[r].capability \in NetworkCapabilities
    /\ \/ response[r].kind = "transport"
       \/ response[r].kind = "http" /\ ~(response[r].status >= 200 /\ response[r].status <= 299)

\* The text the failure came with: the status of the answer, or the transport's message
CauseFragment(r) ==
    IF response[r].kind = "transport" THEN response[r].text ELSE ToString(response[r].status)

\* C7: a handler whose client operation failed made exactly one outbound call,
\* returns no result, and ends in one operation error that carries the cause's text
\* once; the kind of that error is the same for every handler.
C7_UniformOperationError ==
    \A r \in Requests :
        ClientFailed(r) =>
            /\ Len(calls[r]) = 1
            /\ ~outcome[r].ok
            /\ outcome[r].kind \in {"ToolError", "PromptError"}
            /\ Cardinality({i \in DOMAIN outcome[r].text :
                               outcome[r].text[i] = CauseFragment(r)}) = 1
            /\ \A r2 \in Requests :
                  ClientFailed(r2) => outcome[r2].kind = outcome[r].kind

\* add_comment was answered 201 with a JSON object holding the new comment's id
CommentCreated(r) ==
    /\ Finished(r)
    /\ request[r].capability = "add_comment"
    /\ response[r].kind = "http" /\ response[r].status = 201
    /\ \E p \in response[r].json : p[1] = "id"

\* The one POST of add_comment: the bug's comment path under the REST root, the body
\* {"comment": text, "is_private": isPrivate}
OnePostOfTheComment(r) ==
    /\ Len(calls[r]) = 1
    /\ calls[r][1].method = "POST"
    /\ calls[r][1].url =
          <<"https://bz", "/rest", "/bug/", Get(request[r].arguments, "bug_id", None), "/comment">>
    /\ calls[r][1].json =
          { <<"comment", Get(request[r].arguments, "comment", None)>>,
            <<"is_private", IF <<"is_private", "true">> \in request[r].arguments
                            THEN "true" ELSE "false">> }

\* C8 as claimed: one POST with the body {"comment", "is_private"}, and on 201 with
\* {"id": N} the result is {"commentId": N}.
C8_ReturnsCommentId ==
    \A r \in Requests :
        CommentCreated(r) =>
            /\ OnePostOfTheComment(r)
            /\ outcome[r].ok
            /\ outcome[r].value = {<<"commentId", Get(response[r].json, "id", None)>>}

\* C8 (amended): one POST with the body {"comment", "is_private"}, and on 201 with
\* {"id": N} the result is the upstream object unchanged, {"id": N}.
C8_ReturnsUpstreamObject ==
    \A r \in Requests :
        CommentCreated(r) =>
            /\ OnePostOfTheComment(r)
            /\ outcome[r].ok
            /\ outcome[r].value = {<<"id", Get(response[r].json, "id", None)>>}

\* C8's case: a private comment was posted and the tracker answered 201 {"id": "101"}.
C8_Witness ==
    \E r \in Requests :
        /\ pc[r] = "done" /\ CommentCreated(r)
        /\ <<"is_private", "true">> \in request[r].arguments
        /\ <<"id", "101">> \in response[r].json
        /\ outcome[r].ok

\* The comment list of a successful answer to GET /bug/<id>/comment, empty when the
\* answer has none for the bug
UpstreamComments(resp) ==
    LET lists == {c[2] : c \in {x \in UNION {b[2] : b \in UNION {p[2] : p \in
                     {q \in resp.json : q[1] = "bugs"}}} : x[1] = "comments"}}
    IN  IF lists = {} THEN <<>> ELSE CHOOSE l \in lists : TRUE

NotMarkedPrivate(c) == <<"is_private", "true">> \notin c

\* C9: a successful bug_comments returns, without include_private_comments, exactly
\* the comments not marked private, in the upstream order (a comment without the
\* flag is public); with it, the upstream list unchanged; and the empty list, not an
\* error, for a bug without comments.
C9_VisibilityRule ==
    \A r \in Requests :
        ( /\ Finished(r)
          /\ request[r].capability = "bug_comments"
          /\ response[r].kind = "http" /\ response[r].status = 200 ) =>
            /\ outcome[r].ok
            /\ outcome[r].value =
                  IF <<"include_private_comments", "true">> \in request[r].arguments
                  THEN UpstreamComments(response[r])
                  ELSE SelectSeq(UpstreamComments(response[r]), NotMarkedPrivate)

\* C9's case: by default, a list holding a private comment between a public one and
\* one without the flag came back as the two others, in order.
C9_Witness ==
    \E r \in Requests :
        /\ pc[r] = "done" /\ request[r].capability = "bug_comments"
        /\ <<"include_private_comments", "true">> \notin request[r].arguments
        /\ response[r].status = 200
        /\ Len(UpstreamComments(response[r])) = 3
        /\ NotMarkedPrivate(UpstreamComments(response[r])[1])
        /\ ~NotMarkedPrivate(UpstreamComments(response[r])[2])
        /\ \A p \in UpstreamComments(response[r])[3] : p[1] /= "is_private"
        /\ outcome[r].ok /\ Len(outcome[r].value) = 2

\* The output key of each upstream field the projection keeps
ProjectedAs ==
    { <<"id", "bug_id">>, <<"product", "product">>, <<"component", "component">>,
      <<"assigned_to", "assigned_to">>, <<"status", "status">>,
      <<"resolution", "resolution">>, <<"summary", "summary">>,
      <<"last_change_time", "last_updated">> }

UpstreamBugs(resp) ==
    LET lists == {p[2] : p \in {q \in resp.json : q[1] = "bugs"}}
    IN  IF lists = {} THEN <<>> ELSE CHOOSE l \in lists : TRUE

\* C10: a successful bugs_quicksearch returns one record per upstream bug, in order;
\* each has exactly the eight keys bug_id, product, component, assigned_to, status,
\* resolution, summary, last_updated, with bug_id the upstream id, last_updated the
\* upstream last_change_time and the others the same-named upstream fields (null
\* where the upstream bug has none); no other upstream field appears.
C10_Projection ==
    \A r \in Requests :
        ( /\ Finished(r)
          /\ request[r].capability = "bugs_quicksearch"
          /\ response[r].kind = "http" /\ response[r].status = 200 ) =>
            /\ outcome[r].ok
            /\ Len(outcome[r].value) = Len(UpstreamBugs(response[r]))
            /\ \A i \in 1..Len(UpstreamBugs(response[r])) :
                  LET bug == UpstreamBugs(response[r])[i]
                      out == outcome[r].value[i]
                  IN  /\ {p[1] : p \in out} = {m[2] : m \in ProjectedAs}
                      /\ Cardinality(out) = 8
                      /\ \A m \in ProjectedAs :
                            IF \E f \in bug : f[1] = m[1]
                            THEN \E f \in bug : f[1] = m[1] /\ <<m[2], f[2]>> \in out
                            ELSE <<m[2], None>> \in out

\* C10's case: two different bugs came back, one with a field outside the projection
\* and one lacking projected fields, and the handler returned two records.
C10_Witness ==
    \E r \in Requests :
        /\ pc[r] = "done" /\ request[r].capability = "bugs_quicksearch"
        /\ response[r].status = 200
        /\ Len(UpstreamBugs(response[r])) = 2
        /\ UpstreamBugs(response[r])[1] /= UpstreamBugs(response[r])[2]
        /\ \E f \in UpstreamBugs(response[r])[1] : f[1] = "cc"
        /\ outcome[r].ok /\ Len(outcome[r].value) = 2

\* The comments a finished capability handed back to the caller: the list bug_comments
\* returned, or the list interpolated after "Comments Data:" in the prompt text
OutputComments(r) ==
    IF request[r].capability = "bug_comments"
    THEN outcome[r].value
    ELSE outcome[r].value[2]

\* C11: in the output of bug_comments and of summarize_bug_comments, a comment marked
\* private appears only when that invocation asked for private comments with
\* include_private_comments; summarize_bug_comments, which has no such argument,
\* never outputs one.
C11_PrivateOnlyOnRequest ==
    \A r \in Requests :
        ( /\ Finished(r)
          /\ request[r].capability \in {"bug_comments", "summarize_bug_comments"}
          /\ outcome[r].ok
          /\ \E i \in DOMAIN OutputComments(r) : ~NotMarkedPrivate(OutputComments(r)[i]) ) =>
            <<"include_private_comments", "true">> \in request[r].arguments

====
